---- MODULE Spec2Model ----
(***************************************************************************)
(* Model of the batching / deduplicating loader of typeorm-graphql-loader: *)
(* GraphQLQueryManager (queue, cache, setImmediate flush, transaction),    *)
(* its condition builder, and the field-selection planner it calls.        *)
(***************************************************************************)
EXTENDS Integers, Sequences, FiniteSets, TLC

(***************************************************************************)
(* Bounds of the model.                                                    *)
(***************************************************************************)
\* number of load requests issued by resolvers in one behaviour
MaxReq == 3
\* number of _processQueue runs the requests of one behaviour are spread over
MaxFlush == 2
\* number of search groups given to one _formatSearchConditions call
MaxGroups == 2
\* largest maxQueryDepth the planner is run with
MaxDepth == 2
\* number of AND-conditions, and of OR-conditions, of one built request
MaxConds == 2

(***************************************************************************)
(* LoaderSearchMethod (enums/LoaderSearchMethod), taken as a numeric        *)
(* TypeScript enum: members without initialisers, numbered 0, 1, 2 in      *)
(* declaration order, ANY_POSITION first.                                  *)
(* An absent optional value (undefined) is modelled by Undefined.          *)
(***************************************************************************)
Undefined == -1
ANY_POSITION == 0
STARTS_WITH == 1
ENDS_WITH == 2
LoaderSearchMethod == {ANY_POSITION, STARTS_WITH, ENDS_WITH}

\* JavaScript truthiness of an optional enum value: undefined and 0 are falsy
Falsy(x) == x = Undefined \/ x = 0
\* x ?? y  (nullish coalescing): only undefined falls through
Nullish(x, y) == IF x = Undefined THEN y ELSE x
\* x || y  (logical or): every falsy value falls through
OrElse(x, y) == IF Falsy(x) THEN y ELSE x

(***************************************************************************)
(* Requests (QueueItem) as the facade hands them to the manager.           *)
(***************************************************************************)
\* a parameter object {name: value, ...} as its set of <<name, value>> pairs;
\* NoParams is undefined
Params(pairs) == [defined |-> TRUE, values |-> pairs]
NoParams == [defined |-> FALSE, values |-> {}]

\* a LoaderWhereExpression {condition, params} or a Brackets object
Expr(c, p) == [isLoaderWhereExpression |-> TRUE, condition |-> c, params |-> p]
Brackets(f) == [isLoaderWhereExpression |-> FALSE, condition |-> f, params |-> NoParams]

\* QueryPagination: <<>> when the request has none, else <<limit, offset>>
NoPagination == << >>
Pagination(l, o) == <<l, o>>

\* the requests resolvers may issue
Descriptors ==
  { [entity |-> "User", many |-> TRUE, fields |-> "posts.title",
     andWhere |-> << Expr("user.active = :a", Params({<<"a", "1">>})) >>, orWhere |-> << >>,
     search |-> << >>, pagination |-> Pagination(1, 0), ejectQueryCallback |-> "h1"],
    [entity |-> "User", many |-> FALSE, fields |-> "posts.title",
     andWhere |-> << Expr("user.id = :id", Params({<<"id", "7">>})) >>, orWhere |-> << >>,
     search |-> << >>, pagination |-> NoPagination, ejectQueryCallback |-> "h2"] }

\* JSON.stringify of one where argument: a Brackets object has only a
\* function-valued property, which JSON.stringify leaves out ("{}")
Stringify(w) ==
  IF w.isLoaderWhereExpression
    THEN <<"expr", w.condition, w.params>>
    ELSE <<"{}">>

RECURSIVE StringifyAll(_)
StringifyAll(ws) ==
  IF ws = << >> THEN << >> ELSE << Stringify(Head(ws)) >> \o StringifyAll(Tail(ws))

\* md5(JSON.stringify([where, fields])), the hash taken as collision free
Fingerprint(where, fields) == << StringifyAll(where), fields >>

\* loads that differ from one another in one part of the queue item each:
\* the entity, many, a search group, the pagination window, or the function
\* inside a Brackets condition
Variants ==
  LET base == [entity |-> "User", many |-> TRUE, fields |-> "posts.title",
               andWhere |-> << Expr("user.active = :a", Params({<<"a", "1">>})) >>,
               orWhere |-> << >>, search |-> << >>, pagination |-> Pagination(1, 0),
               ejectQueryCallback |-> "h1"]
  IN  { base,
        [base EXCEPT !.entity = "Post"],
        [base EXCEPT !.many = FALSE],
        [base EXCEPT !.search = << [searchColumns |-> << <<"email">> >>, searchText |-> "john",
                                    searchMethod |-> STARTS_WITH, caseSensitive |-> FALSE] >>],
        [base EXCEPT !.pagination = Pagination(1, 1)],
        [base EXCEPT !.andWhere = << Brackets("qb => qb.where('user.id = 1')") >>],
        [base EXCEPT !.andWhere = << Brackets("qb => qb.where('user.id = 2')") >>] }

Keys == { Fingerprint(d.andWhere, d.fields) : d \in Descriptors \cup Variants }

(***************************************************************************)
(* The query builder (SelectQueryBuilder) as the record of what was asked  *)
(* of it, and the condition builder of the manager.                        *)
(***************************************************************************)
\* entityManager.getRepository(name).createQueryBuilder(name).select([])
createTypeORMQueryBuilder(name) ==
  [name |-> name, fields |-> "", clauses |-> << >>, parameters |-> {},
   pagination |-> NoPagination, ejected |-> << >>]

\* this._resolver.createQuery(name, item.fields, connection, queryBuilder, name):
\* the planner adds the selects and joins of the selection tree
createQuery(name, fields, qb) == [qb EXCEPT !.fields = fields]

\* qb.setParameters(params): the named parameters of one query builder are
\* one map, a name that is set again takes the new value
SetParameters(parameters, params) ==
  { b \in parameters : \A n \in params.values : n[1] # b[1] } \cup params.values

\* qb.where / qb.andWhere / qb.orWhere (where, params): the clause is added
\* and its parameters are set on the builder
Clause(qb, op, where, params) ==
  [qb EXCEPT !.clauses = Append(@, [op |-> op, where |-> where, params |-> params]),
             !.parameters = SetParameters(@, params)]

_breakDownWhereExpression(where) ==
  IF where.isLoaderWhereExpression
    THEN [where |-> <<"condition", where.condition>>, params |-> where.params]
    ELSE [where |-> <<"Brackets", where.condition>>, params |-> NoParams]

RECURSIVE ForEachWhere(_, _, _)
ForEachWhere(qb, op, conditions) ==
  IF conditions = << >> THEN qb
  ELSE LET b == _breakDownWhereExpression(Head(conditions))
       IN  ForEachWhere(Clause(qb, op, b.where, b.params), op, Tail(conditions))

\* slip: every AND-condition goes through andWhere, none through where
_addAndWhereConditions_NoWhere(qb, conditions) == ForEachWhere(qb, "andWhere", conditions)

\* const initialWhere = conditions.shift(): qb.where for it, qb.andWhere for the rest
_addAndWhereConditions(qb, conditions) ==
  IF conditions = << >> THEN qb
  ELSE LET b == _breakDownWhereExpression(Head(conditions))
       IN  ForEachWhere(Clause(qb, "where", b.where, b.params), "andWhere", Tail(conditions))

_addOrWhereConditions(qb, conditions) == ForEachWhere(qb, "orWhere", conditions)

\* Formatter.formatSearchColumns: one "col LIKE :searchText" per entry of
\* searchColumns, the columns of a nested entry concatenated, both sides
\* lowered unless the search is case sensitive
RECURSIVE formatSearchColumns(_, _, _)
formatSearchColumns(searchColumns, alias, caseSensitive) ==
  IF searchColumns = << >> THEN << >>
  ELSE << [alias |-> alias, concat |-> Head(searchColumns),
           lower |-> ~caseSensitive, like |-> ":searchText"] >>
       \o formatSearchColumns(Tail(searchColumns), alias, caseSensitive)

\* Formatter.getSearchMethodMapping: where the wildcard goes
getSearchMethodMapping(method, searchText) ==
  CASE method = STARTS_WITH -> << searchText, "%" >>
    [] method = ENDS_WITH   -> << "%", searchText >>
    [] OTHER                -> << "%", searchText, "%" >>

\* const method = searchMethod || this._defaultLoaderSearchMethod
SearchMethodOf(searchMethod, _defaultLoaderSearchMethod) ==
  OrElse(searchMethod, _defaultLoaderSearchMethod)

\* constructor: defaultSearchMethod ?? LoaderSearchMethod.ANY_POSITION
DefaultLoaderSearchMethod(defaultSearchMethod) ==
  Nullish(defaultSearchMethod, ANY_POSITION)

RECURSIVE _formatSearchConditions(_, _, _)
_formatSearchConditions(conditions, alias, dflt) ==
  IF conditions = << >> THEN << >>
  ELSE LET c == Head(conditions)
           method == SearchMethodOf(c.searchMethod, dflt)
       IN  << [query |-> formatSearchColumns(c.searchColumns, alias, c.caseSensitive),
               params |-> getSearchMethodMapping(method, c.searchText)] >>
           \o _formatSearchConditions(Tail(conditions), alias, dflt)

RECURSIVE AndWhereEach(_, _)
AndWhereEach(qb, formatted) ==
  IF formatted = << >> THEN qb
  \* params is the object { searchText: searchTextParam }
  ELSE AndWhereEach(Clause(qb, "andWhere", <<"search", Head(formatted).query>>,
                           Params({ <<"searchText", Head(formatted).params>> })),
                    Tail(formatted))

_addSearchConditions(qb, alias, searchConditions, dflt) ==
  AndWhereEach(qb, _formatSearchConditions(searchConditions, alias, dflt))

\* the synchronous part of _resolveQueueItem: the builder the query is run from
BuildQuery(item, dflt) ==
  LET name == item.entity
      q0 == createTypeORMQueryBuilder(name)
      q1 == createQuery(name, item.fields, q0)
      q2 == _addAndWhereConditions(q1, item.andWhere)
      q3 == _addOrWhereConditions(q2, item.orWhere)
      q4 == _addSearchConditions(q3, name, item.search, dflt)
  IN  [qb |-> q4, run |-> IF item.many THEN "getMany" ELSE "getOne"]


(***************************************************************************)
(* The field-selection planner (GraphQLQueryResolver.createQuery) on a     *)
(* schema with a relation cycle: Author.books -> Book, Book.author ->      *)
(* Author.  A selection tree is null ("select everything") or a prefix     *)
(* closed set of field paths; the plan is the set of selected paths.       *)
(***************************************************************************)
Entities == {"Author", "Book"}
PrimaryKey(e) == "id"
Columns(e) == IF e = "Author" THEN {"id", "name"} ELSE {"id", "title"}
Relations(e) == IF e = "Author" THEN {"books"} ELSE {"author"}
Target(rel) == IF rel = "books" THEN "Book" ELSE "Author"

\* the fields that carry a @ConfigureLoader rule; its ignore and required
\* are the values the boolean or predicate evaluates to for this request
RuleFields == { <<"Author", "name">>, <<"Author", "books">>,
                <<"Book", "title">>, <<"Book", "author">> }
Rules == [RuleFields -> [ignore : BOOLEAN, required : BOOLEAN]]

Ignore(rules, e, f) == <<e, f>> \in RuleFields /\ rules[<<e, f>>].ignore
Required(rules, e, f) == <<e, f>> \in RuleFields /\ rules[<<e, f>>].required

SelectionPaths ==
  { <<"name">>, <<"books">>, <<"books", "title">>, <<"books", "author">>,
    <<"books", "author", "name">>, <<"books", "author", "books">> }
PrefixClosed(paths) ==
  \A p \in paths : Len(p) > 1 => SubSeq(p, 1, Len(p) - 1) \in paths
SelectionTrees ==
  { [all |-> TRUE, paths |-> {}] } \cup
  { [all |-> FALSE, paths |-> ps] : ps \in { q \in SUBSET SelectionPaths : PrefixClosed(q) } }

\* the field is in the selection (a null selection holds every field)
Selected(tree, f) == tree.all \/ << f >> \in tree.paths
\* selection.children of the field
Children(tree, f) ==
  [all |-> tree.all,
   paths |-> { Tail(p) : p \in { q \in tree.paths : Len(q) > 1 /\ Head(q) = f } }]

\* slip: a required rule is honoured before the ignore rule is looked at
IncludeField_RequiredFirst(rules, e, f, tree) ==
  \/ Required(rules, e, f)
  \/ (~Ignore(rules, e, f) /\ (f = PrimaryKey(e) \/ Selected(tree, f)))

\* the ignore rule is tested before the selection and before required
IncludeField(rules, e, f, tree) ==
  /\ ~Ignore(rules, e, f)
  /\ (f = PrimaryKey(e) \/ Selected(tree, f) \/ Required(rules, e, f))

RECURSIVE PlanEntity(_, _, _, _, _)
PlanEntity(rules, e, tree, depth, prefix) ==
  LET columns == { prefix \o << c >> : c \in { c \in Columns(e) : IncludeField(rules, e, c, tree) } }
      relation(r) ==
        IF ~IncludeField(rules, e, r, tree) THEN {}
        ELSE IF Selected(tree, r)
          \* a selected relation is joined and planned recursively, within the depth
          THEN IF depth > 0
                 THEN { prefix \o << r >> } \cup
                      PlanEntity(rules, Target(r), Children(tree, r), depth - 1, prefix \o << r >>)
                 ELSE {}
          \* a required relation that is not selected: leftJoinAndSelect, which
          \* loads all the relation's own columns and does not recurse
          ELSE { prefix \o << r >> } \cup { prefix \o << r, c >> : c \in Columns(Target(r)) }
  IN  columns \cup UNION { relation(r) : r \in Relations(e) }


VARIABLES
  requests,    \* the load calls made so far, in call order (history of the callers)
  call,        \* position of the resolver that is inside a load call
  _queue,      \* GraphQLQueryManager._queue, as request numbers
  _cache,      \* GraphQLQueryManager._cache: key -> promise (0: no entry)
  _immediate,  \* GraphQLQueryManager._immediate: last handle (0: undefined)
  immediates,  \* handles of the immediates the runtime still has to run
  flushes,     \* one record per _processQueue call: drained queue and transaction
  query,       \* per request: state of the query started for it
  calls,       \* per request: the resolve/reject invocations, in order
  executed,    \* per request: the query builder its query was executed from
  plan,        \* planner: input and result of the last createQuery
  search       \* condition builder: input and result of the last search format

vars == << requests, call, _queue, _cache, _immediate, immediates, flushes,
           query, calls, executed, plan, search >>

engineVars == << requests, call, _queue, _cache, _immediate, immediates, flushes,
                 query, calls, executed >>

Reqs == 1..MaxReq

(***************************************************************************)
(* The coalescing engine.  A resolver's load call is processQueryMeta and, *)
(* on a miss, addQueueItem then addCacheItem, all in one synchronous run;  *)
(* immediates and promise callbacks run only between such runs.            *)
(***************************************************************************)
\* the manager of the engine is constructed without options
EngineDefaultSearchMethod == DefaultLoaderSearchMethod(Undefined)

\* values handed to the callbacks
Rows(r) == <<"rows", r>>
QueryError(r) == <<"query error", r>>
TransactionError(f) == <<"transaction error", f>>

Resolve(v) == [fn |-> "resolve", arg |-> v]
Reject(e) == [fn |-> "reject", arg |-> e]

Issued == 1..Len(requests)
Flushed == 1..Len(flushes)
Range(s) == { s[i] : i \in 1..Len(s) }

\* a request whose callbacks were never invoked
Unsettled(r) == calls[r] = << >>
\* requests that own a cache promise: put on the queue and in the cache
Registered(r) == r \in Issued /\ ~requests[r].found /\ (r < Len(requests) \/ call = "idle")

InitEngine ==
  /\ requests = << >>
  /\ call = "idle"
  /\ _queue = << >>
  /\ _cache = [k \in Keys |-> 0]
  /\ _immediate = 0
  /\ immediates = {}
  /\ flushes = << >>
  /\ query = [r \in Reqs |-> "none"]
  /\ calls = [r \in Reqs |-> << >>]
  /\ executed = [r \in Reqs |-> << >>]

\* slip: processQueryMeta leaves the scheduled immediate in place
ClearImmediate_Keep(pending, handle) == pending

\* clearImmediate(this._immediate) when this._immediate is set
ClearImmediate(pending, handle) == IF handle # 0 THEN pending \ {handle} ELSE pending

\* slip: the scheduled immediate is cleared before the cache is looked up
processQueryMeta_ClearFirst(item) ==
  /\ call = "idle"
  /\ Len(requests) < MaxReq
  /\ immediates' = ClearImmediate(immediates, _immediate)
  /\ LET key == Fingerprint(item.andWhere, item.fields)
         r == Len(requests) + 1
     IN  IF _cache[key] # 0
           THEN /\ requests' = Append(requests,
                      [item |-> item, key |-> "", found |-> TRUE,
                       promise |-> _cache[key], turn |-> 0])
                /\ UNCHANGED call
           ELSE /\ Len(flushes) < MaxFlush
                /\ requests' = Append(requests,
                      [item |-> item, key |-> key, found |-> FALSE,
                       promise |-> r, turn |-> Len(flushes) + 1])
                /\ call' = "miss"
  /\ UNCHANGED << _queue, _cache, _immediate, flushes, query, calls, executed, plan, search >>

\* processQueryMeta(info, where): the key of the load, a hit on the cache
\* returned at once, a miss clearing the scheduled immediate
processQueryMeta(item) ==
  /\ call = "idle"
  /\ Len(requests) < MaxReq
  /\ LET key == Fingerprint(item.andWhere, item.fields)
         r == Len(requests) + 1
     IN  IF _cache[key] # 0
           THEN /\ requests' = Append(requests,
                      [item |-> item, key |-> "", found |-> TRUE,
                       promise |-> _cache[key], turn |-> 0])
                /\ UNCHANGED << call, immediates >>
           ELSE /\ Len(flushes) < MaxFlush
                /\ immediates' = ClearImmediate(immediates, _immediate)
                /\ requests' = Append(requests,
                      [item |-> item, key |-> key, found |-> FALSE,
                       promise |-> r, turn |-> Len(flushes) + 1])
                /\ call' = "miss"
  /\ UNCHANGED << _queue, _cache, _immediate, flushes, query, calls, executed, plan, search >>

\* slip: the item is put at the front of the queue
addQueueItem_Unshift ==
  /\ call = "miss"
  /\ LET r == Len(requests)
     IN  /\ _queue' = << r >> \o _queue
         /\ _immediate' = r
         /\ immediates' = immediates \cup {r}
  /\ call' = "queued"
  /\ UNCHANGED << requests, _cache, flushes, query, calls, executed, plan, search >>

\* this._queue.push(item); this._setImmediate()
addQueueItem ==
  /\ call = "miss"
  /\ LET r == Len(requests)
     IN  /\ _queue' = Append(_queue, r)
         /\ _immediate' = r
         /\ immediates' = immediates \cup {r}
  /\ call' = "queued"
  /\ UNCHANGED << requests, _cache, flushes, query, calls, executed, plan, search >>

\* this._cache.set(key, value)
addCacheItem ==
  /\ call = "queued"
  /\ LET r == Len(requests)
     IN  _cache' = [_cache EXCEPT ![requests[r].key] = r]
  /\ call' = "idle"
  /\ UNCHANGED << requests, _queue, _immediate, immediates, flushes, query, calls,
                  executed, plan, search >>

\* slip: the flush copies the queue and leaves the live queue as it is
_processQueue_Copy(h) ==
  /\ call = "idle"
  /\ h \in immediates
  /\ immediates' = immediates \ {h}
  /\ flushes' = Append(flushes, [queue |-> _queue, tx |-> "starting"])
  /\ UNCHANGED << requests, call, _queue, _cache, _immediate, query, calls, executed,
                  plan, search >>

\* the immediate h runs _processQueue up to its await: splice the queue
_processQueue(h) ==
  /\ call = "idle"
  /\ h \in immediates
  /\ immediates' = immediates \ {h}
  /\ flushes' = Append(flushes, [queue |-> _queue, tx |-> "starting"])
  /\ _queue' = << >>
  /\ UNCHANGED << requests, call, _cache, _immediate, query, calls, executed, plan, search >>

\* slip: the catch block rejects the batch but leaves its cache entries
Catch_KeepCache(f, e) ==
  /\ calls' = [r \in Reqs |-> IF r \in Range(flushes[f].queue)
                               THEN Append(calls[r], Reject(e)) ELSE calls[r]]
  /\ UNCHANGED _cache

\* catch (e) { queue.forEach(q => { q.reject(e); this._cache.delete(q.key) }) }
Catch(f, e) ==
  LET queue == Range(flushes[f].queue)
  IN  /\ calls' = [r \in Reqs |-> IF r \in queue THEN Append(calls[r], Reject(e))
                                                 ELSE calls[r]]
      /\ _cache' = [k \in Keys |-> IF \E r \in queue : requests[r].key = k
                                     THEN 0 ELSE _cache[k]]

\* connection.transaction rejects before it ran the callback
TransactionStartFails(f) ==
  /\ call = "idle"
  /\ f \in Flushed
  /\ flushes[f].tx = "starting"
  /\ flushes' = [flushes EXCEPT ![f].tx = "failed"]
  /\ Catch(f, TransactionError(f))
  /\ UNCHANGED << requests, call, _queue, _immediate, immediates, query, executed,
                  plan, search >>

\* the transaction callback: queue.map(this._resolveQueueItem(entityManager)).
\* For the requests in thrown the builder throws (the rejection of that async
\* call is dropped with the array); for the others the query is started.
RunInTransaction(f, thrown) ==
  /\ call = "idle"
  /\ f \in Flushed
  /\ flushes[f].tx = "starting"
  /\ thrown \subseteq Range(flushes[f].queue)
  /\ flushes' = [flushes EXCEPT ![f].tx = "running"]
  /\ query' = [r \in Reqs |->
                 IF r \notin Range(flushes[f].queue) THEN query[r]
                 ELSE IF r \in thrown THEN "threw" ELSE "pending"]
  /\ executed' = [r \in Reqs |->
                    IF r \in Range(flushes[f].queue) /\ r \notin thrown
                      THEN << BuildQuery(requests[r].item, EngineDefaultSearchMethod) >>
                      ELSE executed[r]]
  /\ UNCHANGED << requests, call, _queue, _cache, _immediate, immediates, calls,
                  plan, search >>

\* slip: a failed query rejects every request drained with it
Settle_FailBatch(r, ok) ==
  LET batch == IF ok THEN {r}
               ELSE UNION { Range(flushes[f].queue) :
                            f \in { g \in 1..Len(flushes) : r \in Range(flushes[g].queue) } }
  IN  /\ calls' = [q \in Reqs |->
                     IF q \in batch
                       THEN Append(calls[q], IF ok THEN Resolve(Rows(r)) ELSE Reject(QueryError(r)))
                       ELSE calls[q]]
      /\ _cache' = [_cache EXCEPT ![requests[r].key] = 0]

\* slip: the settled request's callback is invoked but its cache entry stays
Settle_KeepCache(r, ok) ==
  /\ calls' = [calls EXCEPT ![r] =
                 Append(@, IF ok THEN Resolve(Rows(r)) ELSE Reject(QueryError(r)))]
  /\ UNCHANGED _cache

\* promise.then(item.resolve, item.reject).finally(() => this._cache.delete(item.key))
Settle(r, ok) ==
  /\ calls' = [calls EXCEPT ![r] =
                 Append(@, IF ok THEN Resolve(Rows(r)) ELSE Reject(QueryError(r)))]
  /\ _cache' = [_cache EXCEPT ![requests[r].key] = 0]

QuerySettles(r, ok) ==
  /\ call = "idle"
  /\ r \in Issued
  /\ query[r] = "pending"
  /\ query' = [query EXCEPT ![r] = IF ok THEN "fulfilled" ELSE "rejected"]
  /\ Settle(r, ok)
  /\ UNCHANGED << requests, call, _queue, _immediate, immediates, flushes, executed,
                  plan, search >>

\* connection.transaction resolves: the callback returned and the commit succeeded
TransactionCommits(f) ==
  /\ call = "idle"
  /\ f \in Flushed
  /\ flushes[f].tx = "running"
  /\ flushes' = [flushes EXCEPT ![f].tx = "committed"]
  /\ UNCHANGED << requests, call, _queue, _cache, _immediate, immediates, query, calls,
                  executed, plan, search >>

\* connection.transaction rejects after the callback returned (commit failed)
TransactionFails(f) ==
  /\ call = "idle"
  /\ f \in Flushed
  /\ flushes[f].tx = "running"
  /\ flushes' = [flushes EXCEPT ![f].tx = "failed"]
  /\ Catch(f, TransactionError(f))
  /\ UNCHANGED << requests, call, _queue, _immediate, immediates, query, executed,
                  plan, search >>

NoPlan == [rules |-> [f \in RuleFields |-> [ignore |-> FALSE, required |-> FALSE]],
           tree |-> [all |-> TRUE, paths |-> {}], depth |-> 0, ran |-> FALSE, selected |-> {}]
NoSearch == [defaultSearchMethod |-> Undefined, conditions |-> << >>, formatted |-> << >>]

Init ==
  /\ InitEngine
  /\ plan = NoPlan
  /\ search = NoSearch

Next ==
  \/ \E item \in Descriptors : processQueryMeta(item)
  \/ addQueueItem
  \/ addCacheItem
  \/ \E h \in immediates : _processQueue(h)
  \/ \E f \in Flushed : TransactionStartFails(f)
  \/ \E f \in Flushed : \E thrown \in SUBSET Range(flushes[f].queue) : RunInTransaction(f, thrown)
  \/ \E r \in Issued : \E ok \in BOOLEAN : QuerySettles(r, ok)
  \/ \E f \in Flushed : TransactionCommits(f)
  \/ \E f \in Flushed : TransactionFails(f)

Spec == Init /\ [][Next]_vars

(***************************************************************************)
(* The condition builder alone: a manager constructed with any             *)
(* defaultSearchMethod option formats any list of search groups.           *)
(***************************************************************************)
SearchGroups ==
  [searchColumns : { << <<"email">>, <<"firstName", "lastName">> >> },
   searchText : {"john", "doe"},
   searchMethod : {Undefined} \cup LoaderSearchMethod,
   caseSensitive : BOOLEAN]

SearchLists == UNION { [1..n -> SearchGroups] : n \in 1..MaxGroups }

InitSearch ==
  /\ InitEngine
  /\ plan = NoPlan
  /\ \E m \in {Undefined} \cup LoaderSearchMethod : \E conditions \in SearchLists :
       search = [defaultSearchMethod |-> m, conditions |-> conditions, formatted |-> << >>]

\* this._formatSearchConditions(searchConditions, alias) of the constructed manager
FormatSearch ==
  /\ search.formatted = << >>
  /\ search' = [search EXCEPT
       !.formatted = _formatSearchConditions(search.conditions, "User",
                        DefaultLoaderSearchMethod(search.defaultSearchMethod))]
  /\ UNCHANGED << engineVars, plan >>

NextSearch == FormatSearch

SpecSearch == InitSearch /\ [][NextSearch]_vars

(***************************************************************************)
(* The planner alone: any rule evaluation, any selection tree, any depth.  *)
(***************************************************************************)
InitPlan ==
  /\ InitEngine
  /\ search = NoSearch
  /\ \E rules \in Rules : \E tree \in SelectionTrees : \E depth \in 0..MaxDepth :
       plan = [rules |-> rules, tree |-> tree, depth |-> depth, ran |-> FALSE, selected |-> {}]

\* this._resolver.createQuery(name, fields, connection, queryBuilder, name)
CreateQuery ==
  /\ ~plan.ran
  /\ plan' = [plan EXCEPT
       !.ran = TRUE,
       !.selected = PlanEntity(plan.rules, "Author", plan.tree, plan.depth, << >>)]
  /\ UNCHANGED << engineVars, search >>

NextPlan == CreateQuery

SpecPlan == InitPlan /\ [][NextPlan]_vars

(***************************************************************************)
(* The condition builder alone: _resolveQueueItem builds the query of any  *)
(* queue item, with any AND-conditions, OR-conditions and search groups.   *)
(***************************************************************************)
BuildConditions ==
  { Expr("user.active = :a", Params({<<"a", "1">>})),
    Expr("user.age > :min", Params({<<"min", "18">>})),
    Brackets("qb => qb.where(...)") }

ConditionLists == UNION { [1..n -> BuildConditions] : n \in 0..MaxConds }

BuildSearchGroups ==
  { [searchColumns |-> << <<"email">> >>, searchText |-> "john",
     searchMethod |-> STARTS_WITH, caseSensitive |-> FALSE],
    [searchColumns |-> << <<"firstName", "lastName">> >>, searchText |-> "doe",
     searchMethod |-> ENDS_WITH, caseSensitive |-> TRUE] }

BuildSearchLists == UNION { [1..n -> BuildSearchGroups] : n \in 0..MaxGroups }

InitBuild ==
  /\ InitEngine
  /\ plan = NoPlan
  /\ \E andWhere \in ConditionLists : \E orWhere \in ConditionLists :
     \E groups \in BuildSearchLists :
       search = [item |-> [entity |-> "User", many |-> TRUE, fields |-> "posts.title",
                           andWhere |-> andWhere, orWhere |-> orWhere, search |-> groups,
                           pagination |-> NoPagination, ejectQueryCallback |-> "h1"],
                 built |-> << >>]

\* this._resolveQueueItem(entityManager)(item) up to getMany / getOne
ResolveQueueItem ==
  /\ search.built = << >>
  /\ search' = [search EXCEPT !.built = << BuildQuery(search.item, EngineDefaultSearchMethod) >>]
  /\ UNCHANGED << engineVars, plan >>

NextBuild == ResolveQueueItem

SpecBuild == InitBuild /\ [][NextBuild]_vars

(***************************************************************************)
(* The cache lookup alone: resolvers issue loads that differ in one part   *)
(* of the queue item, within one tick.                                     *)
(***************************************************************************)
NextKeys ==
  \/ \E item \in Variants : processQueryMeta(item)
  \/ addQueueItem
  \/ addCacheItem

SpecKeys == Init /\ [][NextKeys]_vars

(***************************************************************************)
(* Properties.                                                             *)
(***************************************************************************)
QueueOf(f) == Range(flushes[f].queue)
Drained(r) == \E f \in Flushed : r \in QueueOf(f)
SameLoad(a, b) ==
  /\ a.entity = b.entity /\ a.fields = b.fields
  /\ a.andWhere = b.andWhere /\ a.orWhere = b.orWhere /\ a.search = b.search

\* C1 (as claimed): a load whose processQueryMeta runs while an identical
\* request is registered (queued and cached) and not yet settled is a cache
\* hit on that request's promise; it is not put on the queue, so one query
\* runs for the pair and both callers hold the same outcome.
C1_Dedup ==
  [][\A item \in Descriptors : processQueryMeta(item) =>
       \A p \in Issued :
         (Registered(p) /\ Unsettled(p) /\ SameLoad(requests[p].item, item)) =>
           /\ requests'[Len(requests')].found
           /\ requests'[Len(requests')].promise = p
           /\ _queue' = _queue
           /\ call' = "idle"]_vars

\* C2 (as claimed): for every drained request the callbacks are invoked at
\* most once altogether, and exactly once when its path has ended (its
\* transaction settled and no query of it is in flight).
C2_ExactlyOnce ==
  \A f \in Flushed : \A r \in QueueOf(f) :
    /\ Len(calls[r]) <= 1
    /\ (flushes[f].tx \in {"committed", "failed"} /\ query[r] # "pending")
         => Len(calls[r]) = 1

\* C3: in the step in which the transaction of flush f fails, reject is
\* invoked with the transaction's error on every request drained into f, and
\* after the step the cache has no entry for the key of any of them.
C3_WholeBatchFailure ==
  [][\A f \in Flushed :
       (flushes[f].tx # "failed" /\ flushes'[f].tx = "failed") =>
         \A r \in QueueOf(f) :
           /\ Len(calls'[r]) = Len(calls[r]) + 1
           /\ calls'[r][Len(calls'[r])] = Reject(TransactionError(f))
           /\ _cache'[requests[r].key] = 0]_vars

C3_Witness ==
  \E f \in Flushed :
    /\ flushes[f].tx = "failed"
    /\ Len(flushes[f].queue) >= 2
    /\ \A r \in QueueOf(f) :
         /\ Reject(TransactionError(f)) \in Range(calls[r])
         /\ _cache[requests[r].key] = 0

\* the callback invocation the request's own query accounts for
OwnOutcome(r) ==
  CASE query[r] = "fulfilled" -> { Resolve(Rows(r)) }
    [] query[r] = "rejected"  -> { Reject(QueryError(r)) }
    [] OTHER                  -> {}

\* C4: while the transaction of a flush has not failed, every callback
\* invocation on a request of the flush carries the outcome of that
\* request's own query (its rows, or its error unchanged), once per settled
\* query: a failed query rejects its own request only.
C4_FailureIsolation ==
  \A f \in Flushed : flushes[f].tx # "failed" =>
    \A r \in QueueOf(f) :
      /\ Range(calls[r]) \subseteq OwnOutcome(r)
      /\ (query[r] \in {"fulfilled", "rejected"} => Len(calls[r]) = 1)

C4_Witness ==
  \E f \in Flushed : \E r1, r2 \in QueueOf(f) :
    /\ flushes[f].tx = "committed"
    /\ query[r1] = "rejected" /\ calls[r1] = << Reject(QueryError(r1)) >>
    /\ query[r2] = "fulfilled" /\ calls[r2] = << Resolve(Rows(r2)) >>

\* nothing is left to run: no load call is open, no immediate is scheduled,
\* every transaction and every started query has settled
Quiescent ==
  /\ call = "idle"
  /\ immediates = {}
  /\ \A f \in Flushed : flushes[f].tx \in {"committed", "failed"}
  /\ \A r \in Issued : query[r] # "pending"

\* C5 (as claimed, at the end of a fair run): when nothing is left to run,
\* every request that was put on the queue has been drained by a flush and
\* has had its resolve or reject callback invoked.
C5_SettledWhenQuiescent ==
  Quiescent =>
    \A r \in Issued : ~requests[r].found => (Drained(r) /\ ~Unsettled(r))

\* C6 (as claimed): the query executed for a drained 'many' request with a
\* pagination window is configured with that limit and offset.
C6_PaginationApplied ==
  \A r \in Issued :
    (executed[r] # << >> /\ requests[r].item.many
       /\ requests[r].item.pagination # NoPagination)
      => executed[r][1].qb.pagination = requests[r].item.pagination

\* C7 (as claimed): the query executed for a drained request is the one its
\* ejectQueryCallback returned, the hook applied exactly once.
C7_HookApplied ==
  \A r \in Issued :
    executed[r] # << >>
      => executed[r][1].qb.ejected = << requests[r].item.ejectQueryCallback >>

\* the method the documented precedence gives a group
ExpectedSearchMethod(searchMethod, defaultSearchMethod) ==
  IF searchMethod # Undefined THEN searchMethod
  ELSE IF defaultSearchMethod # Undefined THEN defaultSearchMethod
  ELSE ANY_POSITION

\* C8 (as claimed): the wildcard of every formatted search group is placed
\* by the group's own searchMethod when it has one, else by the configured
\* defaultSearchMethod, else any-position.
C8_SearchMethodPrecedence ==
  search.formatted # << >> =>
    \A i \in 1..Len(search.conditions) :
      search.formatted[i].params =
        getSearchMethodMapping(
          ExpectedSearchMethod(search.conditions[i].searchMethod,
                               search.defaultSearchMethod),
          search.conditions[i].searchText)

\* the entity a path of the plan ends in, and the ignore rule along a path
EntityOf(path) == IF path = << >> THEN "Author" ELSE Target(path[Len(path)])
IgnoredAt(p, i) == Ignore(plan.rules, EntityOf(SubSeq(p, 1, i - 1)), p[i])
\* the relation at the end of path q is joined by the select-all of a
\* required relation that the selection does not contain
SelectAllJoin(q) ==
  /\ q # << >>
  /\ Required(plan.rules, EntityOf(SubSeq(q, 1, Len(q) - 1)), q[Len(q)])
  /\ ~(plan.tree.all \/ q \in plan.tree.paths)

Enqueued(r) == r \in Issued /\ ~requests[r].found /\ (r < Len(requests) \/ call # "miss")
SamePlace(r1, r2) ==
  \/ r1 \in Range(_queue) /\ r2 \in Range(_queue)
  \/ \E f \in Flushed : r1 \in QueueOf(f) /\ r2 \in QueueOf(f)

\* C10: at most one flush is scheduled at any time, and requests enqueued
\* with no flush started in between (requests[r].turn) are together: in the
\* queue, or drained by the same flush with its one transaction.
C10_BurstCoalescing ==
  /\ Cardinality(immediates) <= 1
  /\ \A r1, r2 \in Issued :
       (Enqueued(r1) /\ Enqueued(r2) /\ requests[r1].turn = requests[r2].turn)
         => SamePlace(r1, r2)

C10_Witness ==
  \E f \in Flushed : \E r1, r2 \in QueueOf(f) :
    /\ requests[r1].key # requests[r2].key
    /\ requests[r1].turn = requests[r2].turn
    /\ flushes[f].tx = "running"
    /\ immediates = {}

\* C11 (as claimed): when the transaction of a flush has committed, no query
\* of a request drained into that flush is still in flight.
C11_QueriesInsideTransaction ==
  \A f \in Flushed : flushes[f].tx = "committed" =>
    \A r \in QueueOf(f) : query[r] # "pending"

\* the request whose promise is the value of the cache entry of key k
Owner(k) == _cache[k]
\* the callbacks of r are invoked in this step
Notified(r) == calls'[r] # calls[r]

Count(s, r) == Cardinality({ i \in 1..Len(s) : s[i] = r })

\* C13: every enqueued request stands exactly once in exactly one place:
\* in the live queue, with a flush still scheduled for it, or in the batch of
\* the one flush that started next after it was enqueued (requests[r].turn);
\* so the batch of a flush holds no request enqueued after the flush started
\* and the live queue holds none that a flush has taken.
C13_FlushSnapshot ==
  \A r \in Issued : Enqueued(r) =>
    LET places == { f \in Flushed : r \in QueueOf(f) }
    IN  \/ /\ Count(_queue, r) = 1
           /\ places = {}
           /\ requests[r].turn = Len(flushes) + 1
           /\ (call = "idle" => immediates # {})
        \/ /\ Count(_queue, r) = 0
           /\ places = { requests[r].turn }
           /\ Count(flushes[requests[r].turn].queue, r) = 1

C13_Witness ==
  \E r1, r2 \in Issued :
    /\ Len(flushes) = 2
    /\ QueueOf(1) = {r1} /\ flushes[1].tx = "running" /\ query[r1] = "pending"
    /\ requests[r2].turn = 2
    /\ QueueOf(2) = {r2} /\ _queue = << >>

\* the requests of s stand in the order in which they were enqueued (a
\* request is enqueued in the synchronous run that issued it)
InEnqueueOrder(s) == \A i, j \in 1..Len(s) : i < j => s[i] < s[j]

\* C14: the live queue and the batch of every flush hold their requests in
\* enqueue order, the flush takes the queue as it stands and the transaction
\* callback starts the query of every request of the batch in one run over
\* the batch; and a callback is invoked for a settling query in the very
\* step in which that query settles, with its own outcome and for no other
\* request, whatever the request's position in the batch.
C14_Ordering ==
  /\ [](InEnqueueOrder(_queue) /\ \A f \in Flushed : InEnqueueOrder(flushes[f].queue))
  /\ [][/\ Len(flushes') > Len(flushes) => flushes'[Len(flushes')].queue = _queue
        /\ \A f \in Flushed :
             (flushes[f].tx = "starting" /\ flushes'[f].tx = "running") =>
               \A r \in QueueOf(f) : query'[r] \in {"pending", "threw"}
        /\ \A r \in Issued :
             (query[r] = "pending" /\ query'[r] # "pending") =>
               /\ calls'[r] = calls[r] \o
                    << IF query'[r] = "fulfilled" THEN Resolve(Rows(r))
                                                 ELSE Reject(QueryError(r)) >>
               /\ \A q \in Issued \ {r} : calls'[q] = calls[q]]_vars

C14_Witness ==
  \E f \in Flushed : \E i, j \in 1..Len(flushes[f].queue) :
    /\ i < j
    /\ query[flushes[f].queue[i]] = "pending" /\ calls[flushes[f].queue[i]] = << >>
    /\ query[flushes[f].queue[j]] = "fulfilled"
    /\ calls[flushes[f].queue[j]] = << Resolve(Rows(flushes[f].queue[j])) >>

\* the call the builder is to receive for the where argument w through op
ExpectedCall(op, w) ==
  [op |-> op,
   where |-> IF w.isLoaderWhereExpression THEN <<"condition", w.condition>>
                                          ELSE <<"Brackets", w.condition>>,
   params |-> IF w.isLoaderWhereExpression THEN w.params ELSE NoParams]

\* C15: the builder of a request with AND-conditions a1..an, OR-conditions
\* o1..om and search groups s1..sk has received n + m + k condition calls:
\* where(a1), andWhere(a2)..andWhere(an), orWhere(o1)..orWhere(om), then one
\* andWhere with the clause of each of s1..sk, in that order; without an
\* AND-condition it has received no where call; a Brackets condition is
\* passed as it is, with no parameters.
C15_CallSequence ==
  search.built # << >> =>
    LET item == search.item
        calls_ == search.built[1].qb.clauses
        n == Len(item.andWhere)
        m == Len(item.orWhere)
        k == Len(item.search)
    IN  /\ Len(calls_) = n + m + k
        /\ \A i \in 1..n :
             calls_[i] = ExpectedCall(IF i = 1 THEN "where" ELSE "andWhere", item.andWhere[i])
        /\ \A i \in 1..m : calls_[n + i] = ExpectedCall("orWhere", item.orWhere[i])
        /\ \A i \in 1..k :
             /\ calls_[n + m + i].op = "andWhere"
             /\ calls_[n + m + i].where =
                  <<"search", formatSearchColumns(item.search[i].searchColumns, item.entity,
                                                  item.search[i].caseSensitive)>>
        /\ (n = 0 => \A i \in 1..Len(calls_) : calls_[i].op # "where")

C15_Witness ==
  /\ search.built # << >>
  /\ Len(search.item.andWhere) = 2 /\ ~search.item.andWhere[2].isLoaderWhereExpression
  /\ Len(search.item.orWhere) = 1
  /\ Len(search.item.search) = 2 /\ search.item.search[1] # search.item.search[2]
  /\ Len(search.built[1].qb.clauses) = 5
  /\ search.built[1].qb.clauses[2] =
       [op |-> "andWhere", where |-> <<"Brackets", "qb => qb.where(...)">>, params |-> NoParams]

\* C19 (as claimed): the parameter bound with the clause of each search
\* group, the pattern of its own searchText and method, is the value the
\* built query holds under that name: no other group has set it again.
C19_SearchParametersApart ==
  search.built # << >> =>
    LET qb == search.built[1].qb
    IN  \A i \in 1..Len(qb.clauses) :
          qb.clauses[i].where[1] = "search"
            => qb.clauses[i].params.values \subseteq qb.parameters

\* C16: a processQueryMeta call that finds a cache entry for the key of its
\* load answers found = true with the promise that entry holds, the one the
\* original request registered, and changes neither the queue nor the cache
\* nor the scheduled immediate, and the caller goes on to enqueue nothing.
C16_HitSideEffectFree ==
  [][\A item \in Descriptors :
       (processQueryMeta(item) /\ _cache[Fingerprint(item.andWhere, item.fields)] # 0) =>
         /\ requests'[Len(requests')].found
         /\ requests'[Len(requests')].promise = _cache[Fingerprint(item.andWhere, item.fields)]
         /\ Registered(requests'[Len(requests')].promise)
         /\ call' = "idle"
         /\ UNCHANGED << _queue, _cache, _immediate, immediates, flushes >>]_vars

C16_Witness ==
  /\ requests # << >>
  /\ requests[Len(requests)].found
  /\ requests[Len(requests)].promise \in Range(_queue)
  /\ _cache[requests[requests[Len(requests)].promise].key] = requests[Len(requests)].promise
  /\ immediates = { _immediate }

\* the two queue items describe different loads
Differs(a, b) ==
  \/ a.entity # b.entity
  \/ a.many # b.many
  \/ a.search # b.search
  \/ a.pagination # b.pagination
  \/ a.andWhere # b.andWhere

\* C17 (as claimed): a request answered from the cache holds the promise of
\* a request that describes the same load: same entity, same multiplicity,
\* same search groups, same pagination, same conditions down to the content
\* of a Brackets.
C17_FingerprintDiscriminates ==
  \A r \in Issued : requests[r].found =>
    ~Differs(requests[r].item, requests[requests[r].promise].item)

\* C18 (as claimed): a step takes an entry out of the cache only when it
\* invokes a callback of the request that registered the entry; the entry
\* of a request that the step does not settle stays.
C18_EvictOwnEntryOnly ==
  [][\A k \in Keys :
       (Owner(k) # 0 /\ ~Notified(Owner(k))) => _cache'[k] = _cache[k]]_vars

====
